---- MODULE Spec2Model ----
(***************************************************************************)
(* Model of Trace::Parser (trace_parser.cpp): the streaming decoder of a   *)
(* binary call trace.  The byte source, the wire constants and the value   *)
(* classes live in headers outside trace_parser.cpp; they are modelled     *)
(* from the format description and kept apart from the parser proper.      *)
(***************************************************************************)
EXTENDS Integers, Sequences, FiniteSets, TLC

(***************************************************************************)
(* Wire constants (trace_format.hpp).                                      *)
(***************************************************************************)
TRACE_VERSION == 1

EVENT_ENTER == 0
EVENT_LEAVE == 1

CALL_END == 0
CALL_ARG == 1
CALL_RET == 2

TYPE_NULL    == 0
TYPE_FALSE   == 1
TYPE_TRUE    == 2
TYPE_SINT    == 3
TYPE_UINT    == 4
TYPE_FLOAT   == 5
TYPE_DOUBLE  == 6
TYPE_STRING  == 7
TYPE_BLOB    == 8
TYPE_ENUM    == 9
TYPE_BITMASK == 10
TYPE_ARRAY   == 11
TYPE_STRUCT  == 12
TYPE_OPAQUE  == 13

EOF == -1

(***************************************************************************)
(* Pointers.  A null pointer is a record whose only information is         *)
(* addr = 0; a signature object carries the address it was allocated at,   *)
(* so that equality of records is equality of objects.  A null Value* and  *)
(* a null Call* are records with the tag "NULL".                           *)
(***************************************************************************)
NULL == [addr |-> 0]
NullValue == [t |-> "NULL"]
NullCall == [no |-> -1, sig |-> NULL, args |-> <<>>, ret |-> NullValue]

IsNull(p) == p.addr = 0
IsNullValue(v) == v.t = "NULL"
IsNullCall(c) == c.no = -1

\* A byte of a buffer that was allocated but never written.
UNINIT == -1

(***************************************************************************)
(* Byte source (File, trace_file.hpp): a forward-only reader over the      *)
(* decompressed bytes.  f is [st, data, pos].                              *)
(***************************************************************************)
NoFile == [st |-> "NULL", data |-> <<>>, pos |-> 0]

File_getc(f) ==
    IF f.pos < Len(f.data)
    THEN [f |-> [f EXCEPT !.pos = @ + 1], c |-> f.data[f.pos + 1]]
    ELSE [f |-> f, c |-> EOF]

Min(a, b) == IF a < b THEN a ELSE b

\* read(dst, n): exactly n bytes, or a short read at EOF; the bytes of dst
\* beyond the short read keep whatever they held.
File_read(f, n) ==
    LET k == Min(n, Len(f.data) - f.pos) IN
    [f |-> [f EXCEPT !.pos = @ + k],
     v |-> [i \in 1..n |-> IF i <= k THEN f.data[f.pos + i] ELSE UNINIT]]

File_currentOffset(f) == f.pos

(***************************************************************************)
(* Varint decoder.  Every definition below takes the result of the call it   *)
(* follows as a parameter, so that each statement of the source is one     *)
(* definition: read_uint_step is the body of the do-while loop of          *)
(* read_uint() once getc() has returned r, and so on.                      *)
(***************************************************************************)
(* An unsigned long long is held in three limbs, lowest first: bits 0..27,  *)
(* bits 28..55 and bits 56..63.  A limb boundary is a multiple of 7, so     *)
(* every 7-bit group of a varint falls inside one limb.                     *)
LimbBits == <<28, 28, 8>>

Zero64 == <<0, 0, 0>>

\* bit j of the number c
Bit(c, j) == (c \div (2 ^ j)) % 2

\* a | b for two numbers below 128
Or7(a, b) ==
    (a + b)
        - ((Bit(a, 0) * Bit(b, 0) + 2 * Bit(a, 1) * Bit(b, 1)
                + 4 * Bit(a, 2) * Bit(b, 2) + 8 * Bit(a, 3) * Bit(b, 3))
            + (16 * Bit(a, 4) * Bit(b, 4) + 32 * Bit(a, 5) * Bit(b, 5)
                + 64 * Bit(a, 6) * Bit(b, 6)))

\* limb | g << off, where limb holds w bits and g is below 128: what is
\* shifted beyond the limb's width is lost
OrGroup(limb, g, off, w) ==
    limb + (Or7((limb \div (2 ^ off)) % 128, g % (2 ^ Min(7, w - off)))
                - ((limb \div (2 ^ off)) % 128)) * (2 ^ off)

\* a shift made in 32 bits: the bits from 32 up are lost
OrShl_int(value, c, shift) ==
    IF shift >= 32 THEN value
    ELSE [value EXCEPT ![(shift \div 28) + 1] =
            OrGroup(@, c % 128, shift % 28, IF shift = 28 THEN 4 ELSE 28)]

\* value | (unsigned long long)(c & 0x7f) << shift, for shift < 64: the bits
\* shifted beyond bit 63 are lost
OrShl(value, c, shift) ==
    [value EXCEPT ![(shift \div 28) + 1] =
        OrGroup(@, c % 128, shift % 28, LimbBits[(shift \div 28) + 1])]

\* An unsigned long long as an integer of the model, which holds 31 bits: the
\* files parsed write no number that needs more.
ToInt(value) == value[1] + (2 ^ 28) * (value[2] % 8)

RECURSIVE read_uint_loop(_, _, _)

\* value |= (c & 0x7f) << shift; shift += 7; while (c & 0x80)
read_uint_step(r, value, shift) ==
    IF r.c = EOF
    THEN [f |-> r.f, v |-> value]
    ELSE IF r.c >= 128
    THEN read_uint_loop(r.f, OrShl(value, r.c, shift), shift + 7)
    ELSE [f |-> r.f, v |-> OrShl(value, r.c, shift)]

read_uint_loop(f, value, shift) == read_uint_step(File_getc(f), value, shift)

\* read_uint(), the value with all its 64 bits
read_uint64(f) == read_uint_loop(f, Zero64, 0)

Narrowed(r) == [f |-> r.f, v |-> ToInt(r.v)]

\* read_uint(), the value as an integer of the model
read_uint(f) == Narrowed(read_uint64(f))

read_byte(f) == File_getc(f)

\* l is the length read
read_string_body(l) ==
    IF l.v > 0 THEN File_read(l.f, l.v) ELSE [f |-> l.f, v |-> <<>>]

read_string(f) == read_string_body(read_uint(f))

Cons(x, rest) == [f |-> rest.f, v |-> <<x>> \o rest.v]

\* n successive read_string() calls (the arg_names / member_names loops)
RECURSIVE read_strings(_, _)

read_strings_rest(s, n) == Cons(s.v, read_strings(s.f, n - 1))

read_strings(f, n) ==
    IF n = 0 THEN [f |-> f, v |-> <<>>] ELSE read_strings_rest(read_string(f), n)

\* name = read_string(); num = read_uint(); num times read_string():
\* the body of a function signature and of a struct signature
SigBody(name, num, names) ==
    [f |-> names.f, name |-> name, num |-> num, names |-> names.v]

read_sig_names(nm, n) == SigBody(nm.v, n.v, read_strings(n.f, n.v))

read_sig_count(nm) == read_sig_names(nm, read_uint(nm.f))

read_sig_body(f) == read_sig_count(read_string(f))

\* num_flags times { name = read_string(); value = read_uint() }; a flag
\* of value zero that is not the first is reported on stderr and kept
RECURSIVE read_flags(_, _)

read_flag_rest(name, u, n) ==
    Cons([name |-> name, value |-> u.v], read_flags(u.f, n - 1))

read_flag_value(s, n) == read_flag_rest(s.v, read_uint(s.f), n)

read_flags(f, n) ==
    IF n = 0 THEN [f |-> f, v |-> <<>>] ELSE read_flag_value(read_string(f), n)

FlagsBody(num, flags) == [f |-> flags.f, num |-> num, flags |-> flags.v]

read_bitmask_flags(n) == FlagsBody(n.v, read_flags(n.f, n.v))

read_bitmask_body(f) == read_bitmask_flags(read_uint(f))

(***************************************************************************)
(* lookup(): the entry of an id-indexed vector, growing the vector with    *)
(* null entries when the id is beyond its end.  Vector index i is sequence *)
(* position i + 1.                                                         *)
(***************************************************************************)
\* a lookup that never finds the entry
lookup_forget(map, index) ==
    [map |-> IF index >= Len(map)
             THEN map \o [i \in 1..(index + 1 - Len(map)) |-> NULL]
             ELSE map,
     sig |-> NULL]

lookup(map, index) ==
    IF index >= Len(map)
    THEN [map |-> map \o [i \in 1..(index + 1 - Len(map)) |-> NULL], sig |-> NULL]
    ELSE [map |-> map, sig |-> map[index + 1]]

(***************************************************************************)
(* Value model (trace_model.hpp).                                          *)
(***************************************************************************)
toSInt(value) ==
    CASE value.t \in {"SInt", "UInt"} -> value.v
      [] value.t = "Bool" -> IF value.v THEN 1 ELSE 0
      [] value.t = "Enum" -> value.sig.value
      [] OTHER -> 0

(***************************************************************************)
(* The parser.  P gathers the fields of Parser that the decoding functions *)
(* read and write:                                                         *)
(*   file, next_call_no, calls, functions, structs, enums, bitmasks,       *)
(*   m_callSigOffsets, m_structSigOffsets, m_enumSigOffsets,               *)
(*   m_bitmaskSigOffsets                                                   *)
(* together with                                                           *)
(*   st     "run", or "exit" after exit(1), or "crash" after a null        *)
(*          dereference that faulted;                                      *)
(*   ub     what a dereference of a null Value* does in this run;          *)
(*   nalloc number of signature objects allocated so far (the next         *)
(*          address);                                                      *)
(* and with a record of what the decoding did, kept for stating properties *)
(* and read by no decoding function:                                       *)
(*   nEnter   number of parse_enter() invocations so far;                  *)
(*   enterNos the call numbers assigned by them, in order;                 *)
(*   pushed   numbers of the calls pushed onto the pending-call list;      *)
(*   erased   numbers of the calls a LEAVE erased from it;                 *)
(*   sigLog   one entry per decoded signature reference: namespace, id,    *)
(*            captured offset, whether the id was bound, whether the       *)
(*            offset was in the namespace's offset set, and the file       *)
(*            position when the signature part was done.                   *)
(***************************************************************************)
UBOutcomes == {"crash", "garbage"}

SetAt(map, index, sig) == [map EXCEPT ![index + 1] = sig]

LogSig(P, ns, id, offset, bound, seen) ==
    [P EXCEPT !.sigLog = Append(@, [ns |-> ns, id |-> id, offset |-> offset,
                                    bound |-> bound, seen |-> seen,
                                    end |-> P.file.pos])]

\* a parser that takes every offset for one where a function body was read
callWithSignature_any(P, offset) == TRUE

callWithSignature(P, offset) == offset \in P.m_callSigOffsets

structWithSignature(P, offset) == offset \in P.m_structSigOffsets

enumWithSignature(P, offset) == offset \in P.m_enumSigOffsets

bitmaskWithSignature(P, offset) == offset \in P.m_bitmaskSigOffsets

\* the result of a value parser that read r and built v
Made(P, r, v) == [P |-> [P EXCEPT !.file = r.f], v |-> v]

RECURSIVE parse_value(_)
RECURSIVE parse_values(_, _)

SIntOf(P, r) == Made(P, r, [t |-> "SInt", v |-> 0 - r.v])

Parse_sint(P) == SIntOf(P, read_uint(P.file))

UIntOf(P, r) == Made(P, r, [t |-> "UInt", v |-> r.v])

Parse_uint(P) == UIntOf(P, read_uint(P.file))

FloatOf(P, r, w) == Made(P, r, [t |-> "Float", w |-> w, v |-> r.v])

Parse_float(P) == FloatOf(P, File_read(P.file, 4), 4)

\* reads the 8 bytes of a double and stores them in a Float
Parse_double(P) == FloatOf(P, File_read(P.file, 8), 8)

StringOf(P, r) == Made(P, r, [t |-> "String", v |-> r.v])

Parse_string(P) == StringOf(P, read_string(P.file))

BlobOf(P, r) == Made(P, r, [t |-> "Blob", v |-> r.v])

\* the size, then the bytes when size is not zero: as read_string()
Parse_blob(P) == BlobOf(P, read_string_body(read_uint(P.file)))

PointerOf(P, r) == Made(P, r, [t |-> "Pointer", v |-> r.v])

Parse_opaque(P) == PointerOf(P, read_uint(P.file))

(*-------------------------------- enum ----------------------------------*)
\* sig->value = value->toSInt(); delete value; enums[id] = sig;
\* m_enumSigOffsets.insert(offset); pv is what parse_value() returned
Parse_enum_install(addr, id, offset, name, seen, pv) ==
    IF pv.P.st # "run"
    THEN [P |-> pv.P, v |-> NullValue]
    ELSE IF IsNullValue(pv.v) /\ pv.P.ub = "crash"
    THEN [P |-> [pv.P EXCEPT !.st = "crash"], v |-> NullValue]
    ELSE [P |-> LogSig([pv.P EXCEPT
                           !.enums = SetAt(@, id,
                               [addr |-> addr, id |-> id, name |-> name,
                                value |-> IF IsNullValue(pv.v) THEN UNINIT
                                          ELSE toSInt(pv.v)]),
                           !.m_enumSigOffsets = @ \cup {offset}],
                       "enum", id, offset, FALSE, seen),
          v |-> [t |-> "Enum", sig |-> pv.P.enums[id + 1]]]

\* the object the table holds for id once Parse_enum_install is done
EnumOf(res, id) ==
    IF res.v.t = "Enum" THEN [res EXCEPT !.v.sig = res.P.enums[id + 1]] ELSE res

\* sig = new EnumSig; sig->name = read_string(); value = parse_value()
Parse_enum_new(P, id, offset, nm) ==
    EnumOf(Parse_enum_install(P.nalloc + 1, id, offset, nm.v,
                              enumWithSignature(P, offset),
                              parse_value([P EXCEPT !.file = nm.f, !.nalloc = @ + 1])),
           id)

\* read_string(); value = parse_value(); delete value
Parse_enum_skipped(sig, id, offset, pv) ==
    [P |-> LogSig(pv.P, "enum", id, offset, TRUE, TRUE),
     v |-> [t |-> "Enum", sig |-> sig]]

Parse_enum_skip(P, sig, id, offset, nm) ==
    Parse_enum_skipped(sig, id, offset, parse_value([P EXCEPT !.file = nm.f]))

\* if (!sig || enumWithSig) { if (!sig) ... else ... }
Parse_enum_sig(P, id, sig, offset) ==
    IF IsNull(sig)
    THEN Parse_enum_new(P, id, offset, read_string(P.file))
    ELSE IF enumWithSignature(P, offset)
    THEN Parse_enum_skip(P, sig, id, offset, read_string(P.file))
    ELSE [P |-> LogSig(P, "enum", id, offset, TRUE, FALSE),
          v |-> [t |-> "Enum", sig |-> sig]]

Parse_enum_lookup(P, r, lk) ==
    Parse_enum_sig([P EXCEPT !.file = r.f, !.enums = lk.map], r.v, lk.sig,
                   File_currentOffset(r.f))

Parse_enum_id(P, r) == Parse_enum_lookup(P, r, lookup(P.enums, r.v))

Parse_enum(P) == Parse_enum_id(P, read_uint(P.file))

(*------------------------------- bitmask --------------------------------*)
\* a parser that records the offset of a bitmask body in the set of the structs
BitmaskDefine_struct(P, id, offset, b) ==
    [P EXCEPT !.file = b.f, !.nalloc = @ + 1,
              !.bitmasks = SetAt(@, id, [addr |-> P.nalloc + 1, id |-> id,
                                         num_flags |-> b.num, flags |-> b.flags]),
              !.m_structSigOffsets = @ \cup {offset}]

BitmaskDefine(P, id, offset, b) ==
    [P EXCEPT !.file = b.f, !.nalloc = @ + 1,
              !.bitmasks = SetAt(@, id, [addr |-> P.nalloc + 1, id |-> id,
                                         num_flags |-> b.num, flags |-> b.flags]),
              !.m_bitmaskSigOffsets = @ \cup {offset}]

BitmaskSkip(P, b) == [P EXCEPT !.file = b.f]

\* if (!sig || bitmaskWithSig) { if (!sig) ... else ... }
Parse_bitmask_sig(P, id, sig, offset) ==
    LogSig(IF IsNull(sig)
           THEN BitmaskDefine(P, id, offset, read_bitmask_body(P.file))
           ELSE IF bitmaskWithSignature(P, offset)
           THEN BitmaskSkip(P, read_bitmask_body(P.file))
           ELSE P,
           "bitmask", id, offset, ~IsNull(sig), bitmaskWithSignature(P, offset))

\* value = read_uint(); return new Bitmask(sig, value)
BitmaskOf(P, id, value) ==
    Made(P, value, [t |-> "Bitmask", sig |-> P.bitmasks[id + 1], v |-> value.v])

Parse_bitmask_value(P, id) == BitmaskOf(P, id, read_uint(P.file))

Parse_bitmask_lookup(P, r, lk) ==
    Parse_bitmask_value(
        Parse_bitmask_sig([P EXCEPT !.file = r.f, !.bitmasks = lk.map], r.v, lk.sig,
                          File_currentOffset(r.f)),
        r.v)

Parse_bitmask_id(P, r) == Parse_bitmask_lookup(P, r, lookup(P.bitmasks, r.v))

Parse_bitmask(P) == Parse_bitmask_id(P, read_uint(P.file))

(*-------------------------------- array ---------------------------------*)
ArrayOf(vs) == [P |-> vs.P, v |-> [t |-> "Array", v |-> vs.v]]

Parse_array_len(P, l) == ArrayOf(parse_values([P EXCEPT !.file = l.f], l.v))

Parse_array(P) == Parse_array_len(P, read_uint(P.file))

(*-------------------------------- struct --------------------------------*)
StructDefine(P, id, offset, b) ==
    [P EXCEPT !.file = b.f, !.nalloc = @ + 1,
              !.structs = SetAt(@, id, [addr |-> P.nalloc + 1, id |-> id,
                                        name |-> b.name, num_members |-> b.num,
                                        member_names |-> b.names]),
              !.m_structSigOffsets = @ \cup {offset}]

StructSkip(P, b) == [P EXCEPT !.file = b.f]

\* if (!sig || structWithSig) { if (!sig) ... else ... }
Parse_struct_sig(P, id, sig, offset) ==
    LogSig(IF IsNull(sig)
           THEN StructDefine(P, id, offset, read_sig_body(P.file))
           ELSE IF structWithSignature(P, offset)
           THEN StructSkip(P, read_sig_body(P.file))
           ELSE P,
           "struct", id, offset, ~IsNull(sig), structWithSignature(P, offset))

StructOf(sig, vs) == [P |-> vs.P, v |-> [t |-> "Struct", sig |-> sig, v |-> vs.v]]

\* value->members[i] = parse_value(), for i < sig->num_members
Parse_struct_members(P, id) ==
    StructOf(P.structs[id + 1], parse_values(P, P.structs[id + 1].num_members))

Parse_struct_lookup(P, r, lk) ==
    Parse_struct_members(
        Parse_struct_sig([P EXCEPT !.file = r.f, !.structs = lk.map], r.v, lk.sig,
                         File_currentOffset(r.f)),
        r.v)

Parse_struct_id(P, r) == Parse_struct_lookup(P, r, lookup(P.structs, r.v))

Parse_struct(P) == Parse_struct_id(P, read_uint(P.file))

(*-------------------------------- values --------------------------------*)
\* the switch of parse_value() on the tag c, P having moved past it
parse_value_tag(P, c) ==
    CASE c = TYPE_NULL    -> [P |-> P, v |-> [t |-> "Null"]]
      [] c = TYPE_FALSE   -> [P |-> P, v |-> [t |-> "Bool", v |-> FALSE]]
      [] c = TYPE_TRUE    -> [P |-> P, v |-> [t |-> "Bool", v |-> TRUE]]
      [] c = TYPE_SINT    -> Parse_sint(P)
      [] c = TYPE_UINT    -> Parse_uint(P)
      [] c = TYPE_FLOAT   -> Parse_float(P)
      [] c = TYPE_DOUBLE  -> Parse_double(P)
      [] c = TYPE_STRING  -> Parse_string(P)
      [] c = TYPE_ENUM    -> Parse_enum(P)
      [] c = TYPE_BITMASK -> Parse_bitmask(P)
      [] c = TYPE_ARRAY   -> Parse_array(P)
      [] c = TYPE_STRUCT  -> Parse_struct(P)
      [] c = TYPE_BLOB    -> Parse_blob(P)
      [] c = TYPE_OPAQUE  -> Parse_opaque(P)
      [] c = EOF          -> [P |-> P, v |-> NullValue]
      [] OTHER            -> [P |-> [P EXCEPT !.st = "exit"], v |-> NullValue]

parse_value_byte(P, r) == parse_value_tag([P EXCEPT !.file = r.f], r.c)

parse_value(P) ==
    IF P.st # "run"
    THEN [P |-> P, v |-> NullValue]
    ELSE parse_value_byte(P, read_byte(P.file))

ConsValue(x, rest) == [P |-> rest.P, v |-> <<x>> \o rest.v]

parse_values_rest(x, n) == ConsValue(x.v, parse_values(x.P, n - 1))

\* n successive parse_value() calls (array elements, struct members)
parse_values(P, n) ==
    IF n = 0 \/ P.st # "run"
    THEN [P |-> P, v |-> <<>>]
    ELSE parse_values_rest(parse_value(P), n)

(***************************************************************************)
(* Calls.                                                                  *)
(***************************************************************************)
NewCall(sig, no) == [no |-> no, sig |-> sig, args |-> <<>>, ret |-> NullValue]

\* if (index >= args.size()) args.resize(index + 1)
Resize(args, index) ==
    IF index >= Len(args)
    THEN args \o [i \in 1..(index + 1 - Len(args)) |-> NullValue]
    ELSE args

\* a store that resizes to exactly index + 1
StoreArg_exact(args, index, value) ==
    [i \in 1..(index + 1) |-> IF i = index + 1 THEN value
                              ELSE IF i <= Len(args) THEN args[i] ELSE NullValue]

\* args[index] = value, after the resize
StoreArg(args, index, value) == [Resize(args, index) EXCEPT ![index + 1] = value]

parse_arg_store(call, index, pv) ==
    IF pv.P.st # "run"
    THEN [P |-> pv.P, call |-> call]
    ELSE [P |-> pv.P, call |-> [call EXCEPT !.args = StoreArg(@, index, pv.v)]]

parse_arg_index(P, call, i) ==
    parse_arg_store(call, i.v, parse_value([P EXCEPT !.file = i.f]))

parse_arg(P, call) == parse_arg_index(P, call, read_uint(P.file))

RECURSIVE parse_call_details(_, _)

parse_call_details_arg(a) == parse_call_details(a.P, a.call)

parse_call_details_ret(call, pv) ==
    parse_call_details(pv.P, [call EXCEPT !.ret = pv.v])

\* a parser for which the end of the file among the details is an unknown tag
parse_call_details_tag_strict(P, call, c) ==
    CASE c = CALL_END -> [P |-> P, call |-> call, ok |-> TRUE]
      [] c = CALL_ARG -> parse_call_details_arg(parse_arg(P, call))
      [] c = CALL_RET -> parse_call_details_ret(call, parse_value(P))
      [] OTHER        -> [P |-> [P EXCEPT !.st = "exit"], call |-> call, ok |-> FALSE]

\* the switch of parse_call_details() on the tag c, P having moved past it
parse_call_details_tag(P, call, c) ==
    CASE c = CALL_END -> [P |-> P, call |-> call, ok |-> TRUE]
      [] c = CALL_ARG -> parse_call_details_arg(parse_arg(P, call))
      [] c = CALL_RET -> parse_call_details_ret(call, parse_value(P))
      [] c = EOF      -> [P |-> P, call |-> call, ok |-> FALSE]
      [] OTHER        -> [P |-> [P EXCEPT !.st = "exit"], call |-> call, ok |-> FALSE]

parse_call_details_byte(P, call, r) ==
    parse_call_details_tag([P EXCEPT !.file = r.f], call, r.c)

parse_call_details(P, call) ==
    IF P.st # "run"
    THEN [P |-> P, call |-> call, ok |-> FALSE]
    ELSE parse_call_details_byte(P, call, read_byte(P.file))

(*-------------------------------- ENTER ---------------------------------*)
\* a parser that forgets to advance the counter
NextCallNo_stuck(n) == n

\* next_call_no++
NextCallNo(n) == n + 1

FunctionDefine(P, id, offset, b) ==
    [P EXCEPT !.file = b.f, !.nalloc = @ + 1,
              !.functions = SetAt(@, id, [addr |-> P.nalloc + 1, id |-> id,
                                          name |-> b.name, num_args |-> b.num,
                                          arg_names |-> b.names]),
              !.m_callSigOffsets = @ \cup {offset}]

FunctionSkip(P, b) == [P EXCEPT !.file = b.f]

\* if (!sig || callWithSig) { if (!sig) ... else ... }
parse_enter_sig(P, id, sig, offset) ==
    LogSig(IF IsNull(sig)
           THEN FunctionDefine(P, id, offset, read_sig_body(P.file))
           ELSE IF callWithSignature(P, offset)
           THEN FunctionSkip(P, read_sig_body(P.file))
           ELSE P,
           "function", id, offset, ~IsNull(sig), callWithSignature(P, offset))

\* a parser that keeps the call whose details stopped at the end of the file
parse_enter_push_always(d) ==
    IF d.ok
    THEN [d.P EXCEPT !.calls = Append(@, d.call), !.pushed = @ \cup {d.call.no}]
    ELSE [d.P EXCEPT !.calls = Append(@, d.call)]

\* if (parse_call_details(call)) calls.push_back(call); else delete call
parse_enter_push(d) ==
    IF d.ok
    THEN [d.P EXCEPT !.calls = Append(@, d.call), !.pushed = @ \cup {d.call.no}]
    ELSE d.P

\* call = new Call(sig); call->no = next_call_no++
parse_enter_call(P, id) ==
    parse_enter_push(
        parse_call_details([P EXCEPT !.next_call_no = NextCallNo(@),
                                     !.enterNos = Append(@, P.next_call_no)],
                           NewCall(P.functions[id + 1], P.next_call_no)))

parse_enter_lookup(P, r, lk) ==
    parse_enter_call(
        parse_enter_sig([P EXCEPT !.file = r.f, !.functions = lk.map,
                                  !.nEnter = @ + 1],
                        r.v, lk.sig, File_currentOffset(r.f)),
        r.v)

parse_enter_id(P, r) == parse_enter_lookup(P, r, lookup(P.functions, r.v))

parse_enter(P) == parse_enter_id(P, read_uint(P.file))

(*-------------------------------- LEAVE ---------------------------------*)
\* a parser that takes the oldest pending call whatever the number read
FindCall_oldest(calls, call_no, i) == IF Len(calls) = 0 THEN 0 ELSE 1

\* the first call of the list with this number, 0 when there is none
RECURSIVE FindCall(_, _, _)
FindCall(calls, call_no, i) ==
    IF i > Len(calls) THEN 0
    ELSE IF calls[i].no = call_no THEN i
    ELSE FindCall(calls, call_no, i + 1)

\* a parser that leaves the call on the list
Erase_keep(seq, i) == seq

\* calls.erase(it)
Erase(seq, i) == SubSeq(seq, 1, i - 1) \o SubSeq(seq, i + 1, Len(seq))

\* if (parse_call_details(call)) return call; else { delete call; return NULL; }
parse_leave_details(d) ==
    IF d.ok THEN [P |-> d.P, call |-> d.call] ELSE [P |-> d.P, call |-> NullCall]

\* i is the position found, 0 for none: if (!call) return NULL
parse_leave_found(P, call_no, i) ==
    IF i = 0
    THEN [P |-> P, call |-> NullCall]
    ELSE parse_leave_details(
             parse_call_details([P EXCEPT !.calls = Erase(@, i),
                                          !.erased = @ \cup {call_no}],
                                P.calls[i]))

parse_leave_no(P, r) ==
    parse_leave_found([P EXCEPT !.file = r.f], r.v, FindCall(P.calls, r.v, 1))

parse_leave(P) == parse_leave_no(P, read_uint(P.file))

(***************************************************************************)
(* parse_call(): the result carries, besides the Call* returned,           *)
(*   via   the event that ended the invocation ("LEAVE", "EOF", or "exit"  *)
(*         when the process terminated instead of returning);              *)
(*   warn  the numbers of the calls reported as incomplete on stderr.      *)
(***************************************************************************)
RECURSIVE parse_call(_)

Exited(P) == [P |-> P, call |-> NullCall, via |-> "exit", warn |-> <<>>]

\* return parse_leave()
parse_call_leave(l) ==
    IF l.P.st # "run"
    THEN Exited(l.P)
    ELSE [P |-> l.P, call |-> l.call, via |-> "LEAVE", warn |-> <<>>]

\* the switch of parse_call() on the tag c, P having moved past it
parse_call_tag(P, c) ==
    CASE c = EVENT_ENTER -> parse_call(parse_enter(P))
      [] c = EVENT_LEAVE -> parse_call_leave(parse_leave(P))
      [] c = EOF         -> [P |-> P, call |-> NullCall, via |-> "EOF",
                             warn |-> [i \in 1..Len(P.calls) |-> P.calls[i].no]]
      [] OTHER           -> Exited([P EXCEPT !.st = "exit"])

parse_call_byte(P, r) == parse_call_tag([P EXCEPT !.file = r.f], r.c)

parse_call(P) ==
    IF P.st # "run" THEN Exited(P) ELSE parse_call_byte(P, read_byte(P.file))

(***************************************************************************)
(* Trace files.  A file is described by the version it starts with, a list *)
(* of events and the number of bytes kept (cut); the bytes are laid out as *)
(* the format prescribes.  An event is                                     *)
(*   [k |-> "E", n |-> function id, full |-> signature body present, det]  *)
(*   [k |-> "L", n |-> call number, det]                                   *)
(*   [k |-> "X"]   a byte that is no event tag                             *)
(* and det is a list of details [d |-> "ARG" or "RET", i |-> index,        *)
(* v |-> position of the value in ValueBytes].                             *)
(***************************************************************************)
uv(n) == IF n < 128 THEN <<n>> ELSE <<128 + (n % 128), n \div 128>>

str(bytes) == uv(Len(bytes)) \o bytes

RECURSIVE Concat(_)
Concat(ss) == IF ss = <<>> THEN <<>> ELSE Head(ss) \o Concat(Tail(ss))

\* function 0 takes no argument, function 1 takes one; the characters of all
\* names are kept small, so that a name read as a count stays small
FuncName == << <<4, 5, 5>>, <<2, 5, 4>> >>
FuncArgNames == << <<>>, << <<6>> >> >>

FuncBody(id) ==
    str(FuncName[id + 1]) \o uv(Len(FuncArgNames[id + 1]))
        \o Concat([i \in 1..Len(FuncArgNames[id + 1]) |-> str(FuncArgNames[id + 1][i])])

UNKNOWN_TAG == 99

ValueBytes == <<
    <<TYPE_UINT, 5>>,                                        \* 1  UInt(5)
    <<TYPE_UINT, 7>>,                                        \* 2  UInt(7)
    <<TYPE_STRING, 2, 14, 15>>,                              \* 3  String
    <<TYPE_ENUM, 0, 1, 14, TYPE_SINT, 2>>,                   \* 4  enum 0, defined: E = -2
    <<TYPE_ENUM, 0>>,                                        \* 5  enum 0, by reference
    <<TYPE_STRUCT, 0, 1, 15, 1, 1, 16, TYPE_UINT, 5>>,      \* 6  struct 0, defined: S{m}, m = 5
    <<TYPE_STRUCT, 0, TYPE_UINT, 7>>,                        \* 7  struct 0, by reference, m = 7
    <<TYPE_BITMASK, 0, 1, 1, 17, 1, 1>>,                     \* 8  bitmask 0, defined: B = 1; value 1
    <<TYPE_BITMASK, 0, 1>>,                                  \* 9  bitmask 0, by reference; value 1
    <<TYPE_ARRAY, 2, TYPE_NULL, TYPE_TRUE>>,                 \* 10 [Null, true]
    <<TYPE_UINT, 172, 2>>,                                   \* 11 UInt(300)
    <<TYPE_BLOB, 2, 8, 9>>,                                  \* 12 Blob
    <<TYPE_OPAQUE, 64>>,                                     \* 13 Pointer(64)
    <<TYPE_FLOAT, 1, 2, 3, 4>>,                              \* 14 Float
    <<TYPE_DOUBLE, 1, 2, 3, 4, 5, 6, 7, 8>>,                \* 15 Double
    <<TYPE_SINT, 3>>,                                        \* 16 SInt(-3)
    <<TYPE_FALSE>>,                                          \* 17 false
    <<TYPE_ENUM, 0, 1, 14, TYPE_ENUM, 0, 1, 15, TYPE_SINT, 2>>,
                                                             \* 18 enum 0, defined by a definition of enum 0
    <<UNKNOWN_TAG>>                                          \* 19 a byte that is no value tag
>>

EncDetail(x) ==
    CASE x.d = "ARG" -> <<CALL_ARG>> \o uv(x.i) \o ValueBytes[x.v]
      [] x.d = "RET" -> <<CALL_RET>> \o ValueBytes[x.v]
      [] OTHER       -> <<UNKNOWN_TAG>>

EncDetails(det) == Concat([i \in 1..Len(det) |-> EncDetail(det[i])])

EncEvent(e) ==
    CASE e.k = "E" -> <<EVENT_ENTER>> \o uv(e.n)
                         \o (IF e.full THEN FuncBody(e.n) ELSE <<>>)
                         \o EncDetails(e.det) \o <<CALL_END>>
      [] e.k = "L" -> <<EVENT_LEAVE>> \o uv(e.n) \o EncDetails(e.det) \o <<CALL_END>>
      [] OTHER     -> <<UNKNOWN_TAG>>

EncEvents(evs) == Concat([i \in 1..Len(evs) |-> EncEvent(evs[i])])

Front(seq) == SubSeq(seq, 1, Len(seq) - 1)

FullStream(in) == uv(in.ver) \o EncEvents(in.evs)

Stream(in) == SubSeq(FullStream(in), 1, in.cut)

Ev(k, n, full, det) == [k |-> k, n |-> n, full |-> full, det |-> det]
Arg(i, v) == [d |-> "ARG", i |-> i, v |-> v]
Ret(v) == [d |-> "RET", i |-> 0, v |-> v]
EvX == Ev("X", 0, FALSE, <<>>)
UnknownValue == 19
DetX == [d |-> "X", i |-> 0, v |-> UnknownValue]

RECURSIVE SeqsUpTo(_, _)
SeqsUpTo(S, n) ==
    IF n = 0 THEN {<<>>}
    ELSE LET prev == SeqsUpTo(S, n - 1)
         IN prev \cup {Append(q, x) : q \in {r \in prev : Len(r) = n - 1}, x \in S}

(***************************************************************************)
(* Bounds of the files given to open().                                    *)
(***************************************************************************)
MaxEvents == 4
MaxArgs == 2
NumValues == Len(ValueBytes)

\* interleavings of calls of foo, with and without details, in any order,
\* well-formed or not, possibly ended by an unknown tag
EventsA == { Ev("E", 0, TRUE, <<Arg(0, 2)>>),
             Ev("E", 0, FALSE, <<Arg(0, 1)>>),
             Ev("L", 0, FALSE, <<>>),
             Ev("L", 1, FALSE, <<Ret(1)>>) }

ListsA == SeqsUpTo(EventsA, MaxEvents)
              \cup {Append(q, EvX) : q \in SeqsUpTo(EventsA, MaxEvents - 1)}

\* calls of foo and bar, bar's signature coming first or second
EventsB == { Ev("E", 0, TRUE, <<Arg(0, 1)>>),
             Ev("E", 1, TRUE, <<Arg(0, 2)>>),
             Ev("L", 0, FALSE, <<Ret(2)>>),
             Ev("L", 1, FALSE, <<>>) }

ListsB == SeqsUpTo(EventsB, MaxEvents - 1)

\* one call with an argument of every kind and a return value
RetValues == {1, 3, 4, 5, 7, 9}
ListsV == { <<Ev("E", 0, TRUE, <<Arg(0, v)>>)>> : v \in 1..NumValues }
              \cup { <<Ev("E", 0, TRUE, <<Arg(0, v)>>), Ev("L", 0, FALSE, <<Ret(w)>>)>> :
                         v \in 1..NumValues, w \in RetValues }

\* one call with arguments written at sparse indices, on ENTER and on LEAVE
ArgIdx == {0, 1, 3}
ArgItems == { Arg(i, v) : i \in ArgIdx, v \in {1, 2} }
ListsArgs == { <<Ev("E", 0, TRUE, d1), Ev("L", 0, FALSE, d2)>> :
                   d1 \in SeqsUpTo(ArgItems, MaxArgs), d2 \in SeqsUpTo(ArgItems, 1) }

\* one call with a byte that is no tag among its events, its details or its
\* values, and events behind it
ListsX == { <<Ev("E", 0, TRUE, <<>>), EvX, Ev("L", 0, FALSE, <<>>)>>,
            <<Ev("E", 0, TRUE, <<DetX>>), Ev("L", 0, FALSE, <<>>)>>,
            <<Ev("E", 0, TRUE, <<Arg(0, UnknownValue)>>), Ev("L", 0, FALSE, <<>>)>>,
            <<Ev("E", 0, TRUE, <<Arg(0, 1)>>), Ev("L", 0, FALSE, <<DetX>>),
              Ev("E", 0, FALSE, <<>>), Ev("L", 1, FALSE, <<>>)>>,
            <<Ev("E", 0, TRUE, <<Arg(0, 1)>>), Ev("L", 0, FALSE, <<Ret(UnknownValue)>>),
              Ev("E", 0, FALSE, <<>>), Ev("L", 1, FALSE, <<>>)>> }

\* the file is cut inside its last event, or not at all
Cuts(ver, evs) ==
    IF evs = <<>>
    THEN 0..Len(uv(ver))
    ELSE (Len(uv(ver)) + Len(EncEvents(Front(evs))) + 1)
             .. (Len(uv(ver)) + Len(EncEvents(evs)))

InputsOf(ver, lists) ==
    UNION { { [ver |-> ver, evs |-> e, cut |-> c] : c \in Cuts(ver, e) } : e \in lists }

WholeInputsOf(ver, lists) ==
    { [ver |-> ver, evs |-> e, cut |-> Len(uv(ver)) + Len(EncEvents(e))] : e \in lists }

Versions == {0, 1, 2, 200}

Inputs ==
    InputsOf(TRACE_VERSION, ListsA \cup ListsB \cup ListsV)
        \cup WholeInputsOf(TRACE_VERSION, ListsArgs \cup ListsX)
        \cup UNION { InputsOf(ver, { <<>>, <<Ev("E", 0, TRUE, <<>>), Ev("L", 0, FALSE, <<>>)>> }) :
                         ver \in Versions }

NoInput == [ver |-> 0, evs |-> <<>>, cut |-> 0]

(***************************************************************************)
(* State.                                                                  *)
(***************************************************************************)
VARIABLES
    file, version, next_call_no, calls,
    functions, structs, enums, bitmasks,
    m_callSigOffsets, m_structSigOffsets, m_enumSigOffsets, m_bitmaskSigOffsets,
    st,          \* "run", "exit" or "crash": whether the process is alive
    nalloc,      \* signature objects allocated so far
    hist,        \* [nEnter, enterNos, pushed, erased, sigLog]
    input,       \* the file given to open()
    openResult,  \* "none" before open(), then "true" or "false"
    lastRet,     \* [call, via, warn] of the last parse_call()
    returned,    \* the calls parse_call() returned, in order
    closed,      \* close() was called, and open() was not since
    varint       \* [enc, u, data, out]: one read_uint() call on its own

vars == <<file, version, next_call_no, calls, functions, structs, enums, bitmasks,
          m_callSigOffsets, m_structSigOffsets, m_enumSigOffsets, m_bitmaskSigOffsets,
          st, nalloc, hist, input, openResult, lastRet, returned, closed, varint>>

NoRet == [call |-> NullCall, via |-> "none", warn |-> <<>>]

NoOut == [f |-> NoFile, v |-> Zero64]

NoVarint == [enc |-> FALSE, u |-> Zero64, data |-> <<>>, out |-> NoOut]

\* Parser::Parser()
Constructed ==
    /\ file = NoFile
    /\ next_call_no = 0
    /\ version = 0
    /\ calls = <<>>
    /\ functions = <<>>
    /\ structs = <<>>
    /\ enums = <<>>
    /\ bitmasks = <<>>
    /\ m_callSigOffsets = {}
    /\ m_structSigOffsets = {}
    /\ m_enumSigOffsets = {}
    /\ m_bitmaskSigOffsets = {}
    /\ st = "run"
    /\ nalloc = 0
    /\ hist = [nEnter |-> 0, enterNos |-> <<>>, pushed |-> {}, erased |-> {}, sigLog |-> <<>>]
    /\ input = NoInput
    /\ openResult = "none"
    /\ lastRet = NoRet
    /\ returned = <<>>
    /\ closed = FALSE

Init == Constructed /\ varint = NoVarint

\* a gate that also rejects the newest version
VersionSupported_strict(v) == v < TRACE_VERSION

VersionSupported(v) == ~(v > TRACE_VERSION)

\* the precondition of open(), assert(!file), on a parser not yet opened
CanOpen == st = "run" /\ file.st = "NULL" /\ openResult = "none"

\* version = read_uint(); if (version > TRACE_VERSION) return false; return true
OpenVersion(r) ==
    /\ file' = r.f
    /\ version' = r.v
    /\ openResult' = IF VersionSupported(r.v) THEN "true" ELSE "false"

\* Parser::open(): in is the file named, exists whether the byte source
\* could open it
Open(in, exists) ==
    /\ CanOpen
    /\ input' = in
    /\ closed' = FALSE
    /\ IF ~exists
       THEN /\ file' = [st |-> "unopened", data |-> <<>>, pos |-> 0]
            /\ version' = version
            /\ openResult' = "false"
       ELSE OpenVersion(read_uint([st |-> "open", data |-> Stream(in), pos |-> 0]))
    /\ UNCHANGED <<next_call_no, calls, functions, structs, enums, bitmasks,
                   m_callSigOffsets, m_structSigOffsets, m_enumSigOffsets,
                   m_bitmaskSigOffsets, st, nalloc, hist, lastRet, returned, varint>>

ParserState(ub) ==
    [file |-> file, next_call_no |-> next_call_no, calls |-> calls,
     functions |-> functions, structs |-> structs, enums |-> enums, bitmasks |-> bitmasks,
     m_callSigOffsets |-> m_callSigOffsets, m_structSigOffsets |-> m_structSigOffsets,
     m_enumSigOffsets |-> m_enumSigOffsets, m_bitmaskSigOffsets |-> m_bitmaskSigOffsets,
     st |-> st, ub |-> ub, nalloc |-> nalloc,
     nEnter |-> hist.nEnter, enterNos |-> hist.enterNos, pushed |-> hist.pushed,
     erased |-> hist.erased, sigLog |-> hist.sigLog]

\* the parser and the caller once parse_call() has ended with r
Returned(r) ==
    /\ file' = r.P.file
    /\ next_call_no' = r.P.next_call_no
    /\ calls' = r.P.calls
    /\ functions' = r.P.functions
    /\ structs' = r.P.structs
    /\ enums' = r.P.enums
    /\ bitmasks' = r.P.bitmasks
    /\ m_callSigOffsets' = r.P.m_callSigOffsets
    /\ m_structSigOffsets' = r.P.m_structSigOffsets
    /\ m_enumSigOffsets' = r.P.m_enumSigOffsets
    /\ m_bitmaskSigOffsets' = r.P.m_bitmaskSigOffsets
    /\ st' = r.P.st
    /\ nalloc' = r.P.nalloc
    /\ hist' = [nEnter |-> r.P.nEnter, enterNos |-> r.P.enterNos, pushed |-> r.P.pushed,
                erased |-> r.P.erased, sigLog |-> r.P.sigLog]
    /\ lastRet' = [call |-> r.call, via |-> r.via, warn |-> r.warn]
    /\ returned' = IF IsNullCall(r.call) THEN returned ELSE Append(returned, r.call)

\* Parser::parse_call(), called after a successful open()
ParseCall(ub) ==
    /\ st = "run"
    /\ file.st = "open"
    /\ openResult = "true"
    /\ Returned(parse_call(ParserState(ub)))
    /\ UNCHANGED <<version, input, openResult, closed, varint>>

\* Parser::close()
Close ==
    /\ st = "run"
    /\ file' = NoFile
    /\ calls' = <<>>
    /\ functions' = <<>>
    /\ structs' = <<>>
    /\ enums' = <<>>
    /\ bitmasks' = <<>>
    /\ closed' = TRUE
    /\ UNCHANGED <<version, next_call_no, m_callSigOffsets, m_structSigOffsets,
                   m_enumSigOffsets, m_bitmaskSigOffsets, st, nalloc, hist, input,
                   openResult, lastRet, returned, varint>>

Next ==
    \/ CanOpen /\ \E in \in Inputs : Open(in, TRUE)
    \/ Open(NoInput, FALSE)
    \/ \E ub \in UBOutcomes : ParseCall(ub)
    \/ Close

Spec == Init /\ [][Next]_vars

(***************************************************************************)
(* read_uint() on its own: a file that starts with the varint of a number  *)
(* u, followed by other bytes, or an empty file.                           *)
(***************************************************************************)
\* 2^k - 1 and 2^k as unsigned long long
Clamp(k, w) == IF k < 0 THEN 0 ELSE IF k > w THEN w ELSE k

AllOnes(k) ==
    <<(2 ^ Clamp(k, 28)) - 1, (2 ^ Clamp(k - 28, 28)) - 1, (2 ^ Clamp(k - 56, 8)) - 1>>

Pow2(k) ==
    <<IF k < 28 THEN 2 ^ k ELSE 0,
      IF k >= 28 /\ k < 56 THEN 2 ^ (k - 28) ELSE 0,
      IF k >= 56 THEN 2 ^ (k - 56) ELSE 0>>

\* u >> 7
Shr7(u) ==
    <<(u[1] \div 128) + (u[2] % 128) * (2 ^ 21),
      (u[2] \div 128) + (u[3] % 128) * (2 ^ 21),
      u[3] \div 128>>

\* the writer's varint of u: seven bits at a time, lowest first, the high bit
\* set on every byte but the last
RECURSIVE EncodeUInt(_)
EncodeUInt(u) ==
    IF u[1] < 128 /\ u[2] = 0 /\ u[3] = 0
    THEN <<u[1]>>
    ELSE <<(u[1] % 128) + 128>> \o EncodeUInt(Shr7(u))

\* 0, 1, 127, 128, 16383, 16384, 2^32 - 1, 2^64 - 1
TestValues ==
    {AllOnes(0), AllOnes(1), AllOnes(7), Pow2(7), AllOnes(14), Pow2(14),
     AllOnes(32), AllOnes(64)}

\* the highest bit of an unsigned long long
MaxBit == 63

UIntValues == TestValues \cup {AllOnes(k) : k \in 0..(MaxBit + 1)} \cup {Pow2(k) : k \in 0..MaxBit}

\* what follows the varint in the file
Tails == {<<>>, <<5>>, <<200, 1>>}

VarintInputs ==
    {[enc |-> TRUE, u |-> u, data |-> EncodeUInt(u) \o t, out |-> NoOut] :
        u \in UIntValues, t \in Tails}
    \cup {NoVarint}

InitUInt == Constructed /\ varint \in VarintInputs

\* one call of read_uint() at the start of the file
ReadUInt ==
    /\ varint.out = NoOut
    /\ varint' = [varint EXCEPT
                    !.out = read_uint64([st |-> "open", data |-> varint.data, pos |-> 0])]
    /\ UNCHANGED <<file, version, next_call_no, calls, functions, structs, enums, bitmasks,
                   m_callSigOffsets, m_structSigOffsets, m_enumSigOffsets,
                   m_bitmaskSigOffsets, st, nalloc, hist, input, openResult, lastRet,
                   returned, closed>>

NextUInt == ReadUInt

SpecUInt == InitUInt /\ [][NextUInt]_vars

TypeOK ==
    /\ file.st \in {"NULL", "unopened", "open"}
    /\ st \in {"run", "exit", "crash"}
    /\ next_call_no \in Nat

(***************************************************************************)
(* What a file is expected to decode to, stated on the list of events it   *)
(* was laid out from.                                                      *)
(***************************************************************************)
Whole(in) == in.cut = Len(FullStream(in))

\* number of ENTER events before position i
RECURSIVE EntersBefore(_, _)
EntersBefore(evs, i) ==
    IF i <= 1 THEN 0
    ELSE EntersBefore(evs, i - 1) + (IF evs[i - 1].k = "E" THEN 1 ELSE 0)

\* position of the ENTER event that creates call number n, 0 when there is none
EnterOf(evs, n) ==
    LET ps == {j \in 1..Len(evs) : evs[j].k = "E" /\ EntersBefore(evs, j) = n}
    IN IF ps = {} THEN 0 ELSE CHOOSE j \in ps : TRUE

\* values that carry no signature
PlainValues == {1, 2, 3, 10, 11, 12, 13, 14, 15, 16, 17}

PlainDetails(det) == \A i \in 1..Len(det) : det[i].v \in PlainValues

\* A function's body comes with its first ENTER and only there, and every
\* LEAVE names a call entered before and not yet left.
WellOrdered(evs) ==
    \A i \in 1..Len(evs) :
        /\ evs[i].k \in {"E", "L"}
        /\ evs[i].k = "E" =>
               evs[i].full = ~(\E j \in 1..(i - 1) : evs[j].k = "E" /\ evs[j].n = evs[i].n)
        /\ evs[i].k = "L" =>
               /\ \E j \in 1..(i - 1) : evs[j].k = "E" /\ EntersBefore(evs, j) = evs[i].n
               /\ ~(\E j \in 1..(i - 1) : evs[j].k = "L" /\ evs[j].n = evs[i].n)

\* A well-formed list of calls whose values carry no signature.
WellFormed(evs) ==
    WellOrdered(evs) /\ \A i \in 1..Len(evs) : PlainDetails(evs[i].det)

ExpectedValue(v) ==
    CASE v = 1  -> [t |-> "UInt", v |-> 5]
      [] v = 2  -> [t |-> "UInt", v |-> 7]
      [] v = 3  -> [t |-> "String", v |-> <<14, 15>>]
      [] v = 10 -> [t |-> "Array", v |-> <<[t |-> "Null"], [t |-> "Bool", v |-> TRUE]>>]
      [] v = 11 -> [t |-> "UInt", v |-> 300]
      [] v = 12 -> [t |-> "Blob", v |-> <<8, 9>>]
      [] v = 13 -> [t |-> "Pointer", v |-> 64]
      [] v = 14 -> [t |-> "Float", w |-> 4, v |-> <<1, 2, 3, 4>>]
      [] v = 15 -> [t |-> "Float", w |-> 8, v |-> <<1, 2, 3, 4, 5, 6, 7, 8>>]
      [] v = 16 -> [t |-> "SInt", v |-> -3]
      [] v = 17 -> [t |-> "Bool", v |-> FALSE]
      [] OTHER  -> NullValue

\* the argument writes of a detail list, as (index, value) pairs
RECURSIVE Writes(_)
Writes(det) ==
    IF det = <<>> THEN <<>>
    ELSE (IF Head(det).d = "ARG" THEN <<Head(det)>> ELSE <<>>) \o Writes(Tail(det))

\* position in ws of the last write to index j, 0 when j was never written
LastWrite(ws, j) ==
    LET ps == {p \in 1..Len(ws) : ws[p].i = j}
    IN IF ps = {} THEN 0 ELSE CHOOSE p \in ps : \A q \in ps : q <= p

ExpectedArgs(det) ==
    LET ws == Writes(det)
        n  == IF ws = <<>> THEN 0
              ELSE 1 + (CHOOSE m \in {ws[p].i : p \in 1..Len(ws)} :
                            \A p \in 1..Len(ws) : ws[p].i <= m)
    IN [j \in 1..n |-> IF LastWrite(ws, j - 1) = 0 THEN NullValue
                       ELSE ExpectedValue(ws[LastWrite(ws, j - 1)].v)]

ExpectedRet(det) ==
    LET ps == {p \in 1..Len(det) : det[p].d = "RET"}
    IN IF ps = {} THEN NullValue
       ELSE ExpectedValue(det[CHOOSE p \in ps : \A q \in ps : q <= p].v)

\* the call a LEAVE event at position i completes
ExpectedCall(evs, i) ==
    LET e   == evs[EnterOf(evs, evs[i].n)]
        det == e.det \o evs[i].det
    IN [no |-> evs[i].n, id |-> e.n, name |-> FuncName[e.n + 1],
        arg_names |-> FuncArgNames[e.n + 1],
        args |-> ExpectedArgs(det), ret |-> ExpectedRet(det)]

RECURSIVE ExpectedCalls(_, _)
ExpectedCalls(evs, i) ==
    IF i > Len(evs) THEN <<>>
    ELSE (IF evs[i].k = "L" THEN <<ExpectedCall(evs, i)>> ELSE <<>>)
             \o ExpectedCalls(evs, i + 1)

\* a decoded call, with its signature spelled out
Seen(call) ==
    [no |-> call.no, id |-> call.sig.id, name |-> call.sig.name,
     arg_names |-> call.sig.arg_names, args |-> call.args, ret |-> call.ret]

SeenCalls(cs) == [i \in 1..Len(cs) |-> Seen(cs[i])]

IsPrefix(a, b) == Len(a) <= Len(b) /\ a = SubSeq(b, 1, Len(a))

AtEnd == lastRet.via = "EOF"

(***************************************************************************)
(* C1: on a well-formed file, successive parse_call() invocations return   *)
(* the calls in the order of their LEAVE events, whatever their numbers,   *)
(* each with the arguments and return value written on its own ENTER and   *)
(* LEAVE; after ENTER(0) ENTER(1) LEAVE(1) LEAVE(0) call 1 comes first.    *)
(***************************************************************************)
C1_LeaveOrder ==
    (openResult = "true" /\ Whole(input) /\ WellFormed(input.evs)) =>
        /\ st = "run"
        /\ IsPrefix(SeenCalls(returned), ExpectedCalls(input.evs, 1))
        /\ lastRet.via = "LEAVE" => ~IsNullCall(lastRet.call)
        /\ AtEnd => SeenCalls(returned) = ExpectedCalls(input.evs, 1)

C1_Witness ==
    /\ Whole(input) /\ WellFormed(input.evs) /\ AtEnd
    /\ Len(returned) = 2
    /\ returned[1].no = 1 /\ returned[2].no = 0
    /\ returned[1].args = <<[t |-> "UInt", v |-> 5]>>
    /\ returned[2].args = <<[t |-> "UInt", v |-> 7]>>

(***************************************************************************)
(* C2: the i-th ENTER processed since construction, counting from 0 and    *)
(* counting the ENTERs whose call was discarded at EOF, creates call       *)
(* number i; the pending calls have pairwise distinct numbers, all smaller *)
(* than next_call_no.                                                      *)
(***************************************************************************)
C2_CallNumbering ==
    /\ next_call_no = hist.nEnter
    /\ Len(hist.enterNos) = hist.nEnter
    /\ \A i \in 1..Len(hist.enterNos) : hist.enterNos[i] = i - 1
    /\ \A i \in 1..Len(calls) :
           /\ calls[i].no < next_call_no
           /\ \A j \in 1..Len(calls) : calls[i].no = calls[j].no => i = j

C2_Witness ==
    /\ st = "run" /\ AtEnd
    /\ Len(calls) = 2
    /\ hist.nEnter = 3

(***************************************************************************)
(* C3: parse_call() returns a call only from a LEAVE; a returned call had  *)
(* been pushed onto the pending list by an ENTER whose details ended with  *)
(* CALL_END, was erased from it by the LEAVE, is not on the list any more, *)
(* and no call is returned twice.                                          *)
(***************************************************************************)
C3_EmittedOnLeaveOnce ==
    /\ ~IsNullCall(lastRet.call) => lastRet.via = "LEAVE"
    /\ \A i \in 1..Len(returned) :
           /\ returned[i].no \in hist.pushed
           /\ returned[i].no \in hist.erased
           /\ \A j \in 1..Len(calls) : calls[j].no # returned[i].no
           /\ \A j \in 1..Len(returned) : returned[i].no = returned[j].no => i = j

C3_Witness ==
    /\ Len(returned) >= 1
    /\ Len(calls) >= 1
    /\ lastRet.via = "LEAVE" /\ ~IsNullCall(lastRet.call)

(***************************************************************************)
(* Files that emit a function's body again.                                *)
(***************************************************************************)
FirstEnter(evs, i) == ~(\E j \in 1..(i - 1) : evs[j].k = "E" /\ evs[j].n = evs[i].n)

\* the list without the bodies that come after a function's first ENTER
Stripped(evs) ==
    [i \in 1..Len(evs) |->
        IF evs[i].k = "E" THEN [evs[i] EXCEPT !.full = FirstEnter(evs, i)] ELSE evs[i]]

\* every function's first ENTER has its body, and some later ENTER has it too
Reemits(evs) ==
    /\ evs # Stripped(evs)
    /\ \A i \in 1..Len(evs) : (evs[i].k = "E" /\ FirstEnter(evs, i)) => evs[i].full

(***************************************************************************)
(* C4: a file that emits again, at a new offset, the body of a function    *)
(* already bound decodes to the calls of the file without the second body: *)
(* the parser goes on, the calls returned are those of the stripped list   *)
(* in order, functions[id] is the object bound first and all the calls of  *)
(* the function share it.                                                  *)
(***************************************************************************)
C4_ReemissionIdempotent ==
    (openResult = "true" /\ Whole(input) /\ Reemits(input.evs)
        /\ WellFormed(Stripped(input.evs))) =>
        /\ st = "run"
        /\ IsPrefix(SeenCalls(returned), ExpectedCalls(Stripped(input.evs), 1))
        /\ AtEnd => SeenCalls(returned) = ExpectedCalls(Stripped(input.evs), 1)
        /\ \A i \in 1..Len(returned) :
               closed \/ returned[i].sig = functions[returned[i].sig.id + 1]

(***************************************************************************)
(* C5: in each of the four tables an entry, once bound, is the same object *)
(* with the same contents after every step but close(); a call's signature *)
(* is the entry of functions for its id, and an enum, struct or bitmask    *)
(* value written by reference carries the entry of its table, the object   *)
(* its definition created.                                                 *)
(***************************************************************************)
Kept(T, T2) ==
    \A k \in 1..Len(T) : ~IsNull(T[k]) => (k <= Len(T2) /\ T2[k] = T[k])

TableOf(v) ==
    CASE v.t = "Enum"    -> enums
      [] v.t = "Struct"  -> structs
      [] v.t = "Bitmask" -> bitmasks
      [] OTHER           -> <<>>

Interned(v) ==
    v.t \in {"Enum", "Struct", "Bitmask"} => v.sig = TableOf(v)[v.sig.id + 1]

InternedCall(c) ==
    /\ c.sig = functions[c.sig.id + 1]
    /\ Interned(c.ret)
    /\ \A i \in 1..Len(c.args) : Interned(c.args[i])

C5_Step ==
    ~closed' =>
        /\ Kept(functions, functions')
        /\ Kept(structs, structs')
        /\ Kept(enums, enums')
        /\ Kept(bitmasks, bitmasks')

C5_Interned ==
    ~closed =>
        /\ \A i \in 1..Len(returned) : InternedCall(returned[i])
        /\ \A i \in 1..Len(calls) : InternedCall(calls[i])

DetailValues(evs) ==
    Concat([i \in 1..Len(evs) |-> [j \in 1..Len(evs[i].det) |-> evs[i].det[j].v]])

\* an enum, struct or bitmask is defined where it first appears, once, and
\* referred to afterwards
SigValuesOK(vs) ==
    \A p \in 1..Len(vs) :
        \/ vs[p] \in PlainValues
        \/ vs[p] \in {4, 6, 8} /\ \A q \in 1..(p - 1) : vs[q] # vs[p]
        \/ vs[p] \in {5, 7, 9} /\ \E q \in 1..(p - 1) : vs[q] = vs[p] - 1

Valid(evs) == WellOrdered(evs) /\ SigValuesOK(DetailValues(evs))

C6_TruncationTolerance ==
    (openResult = "true" /\ Valid(input.evs)) =>
        /\ st # "crash"
        /\ (st = "run" /\ WellFormed(input.evs)) =>
               IsPrefix(SeenCalls(returned), ExpectedCalls(input.evs, 1))

(***************************************************************************)
(* C7: parse_call() returns no call only when the byte source is at EOF.   *)
(***************************************************************************)
C7_NullOnlyAtEOF ==
    (lastRet.via \in {"LEAVE", "EOF"} /\ IsNullCall(lastRet.call) /\ file.st = "open") =>
        file.pos >= Len(file.data)

(***************************************************************************)
(* C8: the arguments of a call are the writes of its ENTER details         *)
(* followed by those of its LEAVE details: args has as many positions as   *)
(* the largest index written plus one, a position written holds the value  *)
(* of the last write to it and a position never written is unset.  A       *)
(* pending call holds the writes of its ENTER alone.                       *)
(***************************************************************************)
MaxIndex(ws) ==
    CHOOSE m \in {ws[p].i : p \in 1..Len(ws)} : \A p \in 1..Len(ws) : ws[p].i <= m

ArgsAre(args, ws) ==
    /\ Len(args) = IF ws = <<>> THEN 0 ELSE MaxIndex(ws) + 1
    /\ \A j \in 1..Len(args) :
           IF LastWrite(ws, j - 1) = 0
           THEN IsNullValue(args[j])
           ELSE args[j] = ExpectedValue(ws[LastWrite(ws, j - 1)].v)

LeaveOf(evs, n) ==
    CHOOSE i \in 1..Len(evs) : evs[i].k = "L" /\ evs[i].n = n

C8_SparseArgs ==
    (openResult = "true" /\ Whole(input) /\ WellFormed(input.evs)) =>
        /\ \A i \in 1..Len(returned) :
               ArgsAre(returned[i].args,
                       Writes(input.evs[EnterOf(input.evs, returned[i].no)].det
                                  \o input.evs[LeaveOf(input.evs, returned[i].no)].det))
        /\ \A i \in 1..Len(calls) :
               ArgsAre(calls[i].args,
                       Writes(input.evs[EnterOf(input.evs, calls[i].no)].det))

\* writes at 0 and 3 on ENTER and at 1 on LEAVE
C8_Witness ==
    /\ Len(returned) = 1
    /\ Len(input.evs) = 2
    /\ Len(input.evs[1].det) = 2
    /\ input.evs[1].det[1].i = 0 /\ input.evs[1].det[2].i = 3
    /\ Len(input.evs[2].det) = 1
    /\ input.evs[2].det[1].i = 1
    /\ Len(returned[1].args) = 4
    /\ IsNullValue(returned[1].args[3])
    /\ ~IsNullValue(returned[1].args[1])
    /\ ~IsNullValue(returned[1].args[2])
    /\ ~IsNullValue(returned[1].args[4])

(***************************************************************************)
(* C9: open() of a file that exists returns true when the first varint of  *)
(* the file is at most TRACE_VERSION, an empty file reading as 0, and      *)
(* false when it is greater; version is that varint, read by open() and    *)
(* by nothing after it.                                                    *)
(***************************************************************************)
\* the first varint of the file, from the version it was laid out with
FirstUInt(in) ==
    IF in.cut >= Len(uv(in.ver)) THEN in.ver
    ELSE IF in.cut = 0 THEN 0
    ELSE in.ver % 128

C9_Gate ==
    /\ openResult = "true" =>
           (version = FirstUInt(input) /\ version <= TRACE_VERSION)
    /\ (openResult = "false" /\ file.st = "open") =>
           (version = FirstUInt(input) /\ version > TRACE_VERSION
               /\ returned = <<>> /\ hist.nEnter = 0)
    /\ openResult = "none" => version = 0

C9_ReadOnce == openResult # "none" => version' = version

C9_VersionGate == []C9_Gate /\ [][C9_ReadOnce]_vars

\* a file of a version written on two bytes, refused
C9_Witness ==
    /\ openResult = "false"
    /\ file.st = "open"
    /\ version = 200
    /\ file.pos = 2

(***************************************************************************)
(* C10: after close() the parser holds no file, no pending call, and its   *)
(* four tables and four offset sets are empty.                             *)
(***************************************************************************)
C10_CloseEmpties ==
    closed =>
        /\ file.st = "NULL"
        /\ calls = <<>>
        /\ functions = <<>> /\ structs = <<>> /\ enums = <<>> /\ bitmasks = <<>>
        /\ m_callSigOffsets = {} /\ m_structSigOffsets = {}
        /\ m_enumSigOffsets = {} /\ m_bitmaskSigOffsets = {}


(***************************************************************************)
(* C11: read_uint() gives back the number whose varint starts the file --  *)
(* 0, 1, 127, 128, 16383, 16384, 2^32 - 1 and 2^64 - 1 among the numbers   *)
(* tried -- and stops right behind the varint's last byte; on an empty     *)
(* file it gives 0 and consumes nothing.                                   *)
(***************************************************************************)
DidRead == varint.out.f.st = "open"

C11_VarintRoundTrip ==
    DidRead =>
        IF varint.enc
        THEN /\ varint.out.v = varint.u
             /\ varint.out.f.pos = Len(EncodeUInt(varint.u))
        ELSE /\ varint.data = <<>>
             /\ varint.out.v = Zero64
             /\ varint.out.f.pos = 0

\* 2^64 - 1 was read back from its ten bytes, with bytes left behind it
C11_Witness ==
    /\ DidRead
    /\ varint.enc
    /\ varint.u = AllOnes(64)
    /\ varint.out.v = <<268435455, 268435455, 255>>
    /\ varint.out.f.pos = 10
    /\ Len(varint.data) = 12


(***************************************************************************)
(* C12: in every namespace, a signature reference consumes a definition    *)
(* body exactly when its id is not yet bound or the offset captured after  *)
(* the id is not in the namespace's offset set; otherwise it consumes no   *)
(* byte.  Stated on files that are not cut, where a body, when read, has   *)
(* at least one byte.                                                      *)
(***************************************************************************)
BodyConsumed(e) == e.end > e.offset

C12_BodyWhenUnboundOrUnseen ==
    Whole(input) =>
        \A i \in 1..Len(hist.sigLog) :
            BodyConsumed(hist.sigLog[i]) <=> (~hist.sigLog[i].bound \/ ~hist.sigLog[i].seen)


(***************************************************************************)
(* C13: a LEAVE whose number matches no pending call is skipped.  Stated   *)
(* on whole files that start with a LEAVE -- no call is pending then --    *)
(* followed by a well-formed list: the parse_call() that meets the LEAVE   *)
(* returns no call, leaves the pending list, the tables and next_call_no   *)
(* as they were and stops right behind the LEAVE's CALL_END, and the calls *)
(* returned are those of the file without that LEAVE.                      *)
(***************************************************************************)
LeadsWithLeave(evs) == Len(evs) >= 1 /\ evs[1].k = "L" /\ WellFormed(Tail(evs))

EndOfFirstEvent(in) == Len(uv(in.ver)) + Len(EncEvent(in.evs[1]))

\* the parse_call() that met the leading LEAVE has returned, nothing else was read
MetLeadingLeave ==
    /\ lastRet.via = "LEAVE"
    /\ IsNullCall(lastRet.call)
    /\ hist.nEnter = 0
    /\ hist.erased = {}

C13_UnmatchedLeaveSkipped ==
    (openResult = "true" /\ Whole(input) /\ LeadsWithLeave(input.evs)) =>
        /\ st = "run"
        /\ MetLeadingLeave =>
               /\ calls = <<>> /\ next_call_no = 0
               /\ functions = <<>> /\ structs = <<>> /\ enums = <<>> /\ bitmasks = <<>>
               /\ file.pos = EndOfFirstEvent(input)
        /\ IsPrefix(SeenCalls(returned), ExpectedCalls(Tail(input.evs), 1))
        /\ AtEnd => SeenCalls(returned) = ExpectedCalls(Tail(input.evs), 1)


(***************************************************************************)
(* C14: when parse_call() meets the end of the file between two events     *)
(* while calls are pending, it reports every pending call, takes them all  *)
(* off the pending list and returns no call; every parse_call() made after *)
(* that returns no call at the end of the file again and reports nothing.  *)
(***************************************************************************)
\* a step taken after parse_call() has returned at the end of the file,
\* close() apart
C14_Step ==
    (lastRet.via = "EOF" /\ ~closed') =>
        /\ lastRet'.via = "EOF"
        /\ IsNullCall(lastRet'.call)
        /\ lastRet'.warn = <<>>

C14_Dropped == lastRet.via = "EOF" => (IsNullCall(lastRet.call) /\ calls = <<>>)

C14_EOFDropsPending == [][C14_Step]_vars /\ []C14_Dropped


(***************************************************************************)
(* C15: until close(), the pending list holds exactly the calls pushed by  *)
(* an ENTER whose details ended with CALL_END and not yet taken off by a   *)
(* LEAVE that read their number, each once: an ENTER whose details stop at *)
(* the end of the file adds nothing, and a LEAVE takes the call off before *)
(* it reads its own details, whether these complete or not.  At the end of *)
(* a whole well-formed file these are the calls entered and never left.    *)
(***************************************************************************)
RegistryNos == {calls[i].no : i \in 1..Len(calls)}

\* the numbers of the calls a list of events enters and does not leave
PendingNos(evs) ==
    {n \in 0..(EntersBefore(evs, Len(evs) + 1) - 1) :
        ~(\E j \in 1..Len(evs) : evs[j].k = "L" /\ evs[j].n = n)}

C15_RegistryContents ==
    ~closed =>
        /\ RegistryNos = hist.pushed \ hist.erased
        /\ Len(calls) = Cardinality(RegistryNos)
        /\ Cardinality(hist.pushed) <= hist.nEnter
        /\ (openResult = "true" /\ Whole(input) /\ WellFormed(input.evs) /\ AtEnd) =>
               RegistryNos = PendingNos(input.evs)

\* a LEAVE took call 0 off the list and then met the end of the file in its
\* details, while call 1 is still pending
C15_Witness ==
    /\ ~closed
    /\ lastRet.via = "LEAVE" /\ IsNullCall(lastRet.call)
    /\ hist.pushed = {0, 1}
    /\ hist.erased = {0}
    /\ RegistryNos = {1}
    /\ returned = <<>>


(***************************************************************************)
(* C16: each namespace's offset set is the set of the offsets, captured    *)
(* right after an id, at which the parser consumed a definition body of    *)
(* that namespace; when a whole file writes a function's body behind two   *)
(* ENTERs, the offsets of both bodies are in m_callSigOffsets once the     *)
(* parser has read past them.                                              *)
(***************************************************************************)
BodyOffsets(ns) ==
    {hist.sigLog[i].offset :
        i \in {j \in 1..Len(hist.sigLog) :
                  hist.sigLog[j].ns = ns /\ BodyConsumed(hist.sigLog[j])}}

\* the offset right behind the id of the i-th event
IdOffset(in, i) ==
    Len(uv(in.ver)) + Len(EncEvents(SubSeq(in.evs, 1, i - 1))) + 1 + Len(uv(in.evs[i].n))

\* a well-formed list, but for the bodies written again behind later ENTERs
BodiesAtLeastFirst(evs) ==
    /\ WellFormed(Stripped(evs))
    /\ \A i \in 1..Len(evs) : (evs[i].k = "E" /\ FirstEnter(evs, i)) => evs[i].full

C16_SeenAtIsBodyOffsets ==
    (openResult = "true" /\ Whole(input) /\ BodiesAtLeastFirst(input.evs)) =>
        /\ m_callSigOffsets = BodyOffsets("function")
        /\ m_structSigOffsets = BodyOffsets("struct")
        /\ m_enumSigOffsets = BodyOffsets("enum")
        /\ m_bitmaskSigOffsets = BodyOffsets("bitmask")
        /\ \A i \in 1..Len(input.evs) :
               (input.evs[i].k = "E" /\ input.evs[i].full /\ file.pos > IdOffset(input, i)) =>
                   IdOffset(input, i) \in m_callSigOffsets


(***************************************************************************)
(* C17: the four namespaces are independent.  A step changes a namespace's *)
(* offset set or binds an entry of its table only through a reference read *)
(* in that very namespace at an unbound id; a reference read in another    *)
(* namespace leaves both as they were, so that an id can be bound in one   *)
(* table and absent from another.                                          *)
(***************************************************************************)
Namespaces == {"function", "struct", "enum", "bitmask"}

SigTable(ns) ==
    CASE ns = "function" -> functions
      [] ns = "struct"   -> structs
      [] ns = "enum"     -> enums
      [] ns = "bitmask"  -> bitmasks

SigOffsets(ns) ==
    CASE ns = "function" -> m_callSigOffsets
      [] ns = "struct"   -> m_structSigOffsets
      [] ns = "enum"     -> m_enumSigOffsets
      [] ns = "bitmask"  -> m_bitmaskSigOffsets

\* the references of namespace ns, among those logged from position from on,
\* that found their id unbound
Defining(log, from, ns) ==
    {i \in from..Len(log) : log[i].ns = ns /\ ~log[i].bound}

C17_Step ==
    ~closed' =>
        \A ns \in Namespaces :
            /\ SigOffsets(ns)' =
                   SigOffsets(ns) \cup
                       {hist'.sigLog[i].offset :
                           i \in Defining(hist'.sigLog, Len(hist.sigLog) + 1, ns)}
            /\ \A k \in 1..Len(SigTable(ns)') :
                   (k > Len(SigTable(ns)) \/ SigTable(ns)'[k] # SigTable(ns)[k]) =>
                       \/ IsNull(SigTable(ns)'[k])
                       \/ \E i \in Defining(hist'.sigLog, Len(hist.sigLog) + 1, ns) :
                              hist'.sigLog[i].id = k - 1

C17_OwnOffsets ==
    \A ns \in Namespaces :
        SigOffsets(ns) = {hist.sigLog[i].offset : i \in Defining(hist.sigLog, 1, ns)}

C17_NamespacesIndependent == [][C17_Step]_vars /\ []C17_OwnOffsets

\* id 0 is bound as a function and as an enum, and is no struct and no bitmask
C17_Witness ==
    /\ ~closed
    /\ Len(functions) >= 1 /\ ~IsNull(functions[1])
    /\ Len(enums) >= 1 /\ ~IsNull(enums[1])
    /\ structs = <<>> /\ bitmasks = <<>>
    /\ m_callSigOffsets # {} /\ m_enumSigOffsets # {}
    /\ m_structSigOffsets = {} /\ m_bitmaskSigOffsets = {}


(***************************************************************************)
(* C18: a byte that is no tag where an event, a call detail or a value is  *)
(* expected ends the process: parse_call() does not return, neither for    *)
(* the event that holds the byte nor for a later one, and nothing is read  *)
(* behind it.  The end of the file where an event, a detail or a value is  *)
(* expected never does: a valid file cut at any byte leaves the process    *)
(* out of that state.                                                      *)
(***************************************************************************)
Clean(e) ==
    /\ e.k \in {"E", "L"}
    /\ \A j \in 1..Len(e.det) : e.det[j].d \in {"ARG", "RET"} /\ e.det[j].v # UnknownValue

\* the first event that holds a byte that is no tag, 0 when there is none
FirstUnknown(evs) ==
    IF \A i \in 1..Len(evs) : Clean(evs[i]) THEN 0
    ELSE CHOOSE i \in 1..Len(evs) : ~Clean(evs[i]) /\ \A j \in 1..(i - 1) : Clean(evs[j])

\* a well-formed list up to the first such byte
Tainted(evs) ==
    /\ FirstUnknown(evs) # 0
    /\ WellFormed(SubSeq(evs, 1, FirstUnknown(evs) - 1))
    /\ evs[FirstUnknown(evs)].k = "X" \/ WellOrdered(SubSeq(evs, 1, FirstUnknown(evs)))
    /\ \A j \in 1..Len(evs[FirstUnknown(evs)].det) :
           evs[FirstUnknown(evs)].det[j].v \in PlainValues \cup {UnknownValue}

C18_Step == st = "exit" => UNCHANGED vars

C18_Fatal ==
    /\ st = "exit" =>
           /\ file.pos >= 1
           /\ file.data[file.pos] \notin {0, 1}
           /\ lastRet.via = "exit" /\ IsNullCall(lastRet.call)
    /\ ~IsNullCall(lastRet.call) => st # "exit"
    /\ (openResult = "true" /\ Valid(input.evs)) => st # "exit"
    /\ (openResult = "true" /\ Whole(input) /\ Tainted(input.evs)) =>
           /\ st = "run" => \A k \in 1..file.pos : file.data[k] # UNKNOWN_TAG
           /\ st = "exit" => file.data[file.pos] = UNKNOWN_TAG
           /\ ~AtEnd
           /\ IsPrefix(SeenCalls(returned),
                       ExpectedCalls(SubSeq(input.evs, 1, FirstUnknown(input.evs) - 1), 1))

C18_UnknownTagFatal == [][C18_Step]_vars /\ []C18_Fatal

\* the byte stood for the return value of a LEAVE: the call was taken off the
\* pending list and never returned, and the events behind it were not read
C18_Witness ==
    /\ st = "exit"
    /\ Whole(input) /\ Tainted(input.evs)
    /\ Len(input.evs) = 4
    /\ input.evs[2].det = <<Ret(UnknownValue)>>
    /\ hist.erased = {0}
    /\ returned = <<>>
    /\ file.pos < Len(file.data)


(***************************************************************************)
(* C19: while one file is parsed from its start to its end, the offset     *)
(* captured behind the id of a signature reference is never in the offset  *)
(* set of its namespace already; in all four namespaces bytes of a body    *)
(* are consumed only when the id is unbound, a reference to a bound id     *)
(* consumes nothing, and an unbound id consumes a body unless the file     *)
(* ends right there.                                                       *)
(***************************************************************************)
C19_ForwardNeverSeen ==
    \A i \in 1..Len(hist.sigLog) :
        /\ ~hist.sigLog[i].seen
        /\ hist.sigLog[i].bound => ~BodyConsumed(hist.sigLog[i])
        /\ ~hist.sigLog[i].bound =>
               (BodyConsumed(hist.sigLog[i]) \/ hist.sigLog[i].offset = Len(Stream(input)))
        /\ \A j \in 1..(i - 1) :
               hist.sigLog[j].ns = hist.sigLog[i].ns =>
                   hist.sigLog[j].offset # hist.sigLog[i].offset

\* a function and an enum were defined and the enum was referred to again, up
\* to the end of the file, and no offset captured was in its set
C19_Witness ==
    /\ \E i \in 1..Len(hist.sigLog) :
           hist.sigLog[i].ns = "function" /\ ~hist.sigLog[i].bound /\ BodyConsumed(hist.sigLog[i])
    /\ \E i \in 1..Len(hist.sigLog) :
           hist.sigLog[i].ns = "enum" /\ ~hist.sigLog[i].bound /\ BodyConsumed(hist.sigLog[i])
    /\ \E i \in 1..Len(hist.sigLog) :
           hist.sigLog[i].ns = "enum" /\ hist.sigLog[i].bound /\ ~BodyConsumed(hist.sigLog[i])
    /\ \A i \in 1..Len(hist.sigLog) : ~hist.sigLog[i].seen
    /\ AtEnd


(***************************************************************************)
(* C20: when open() has returned false, because the file could not be      *)
(* opened or because its version is not supported, the parser is as it was *)
(* before the call: file is NULL, so that the precondition of open(),      *)
(* assert(!file), holds and open() can be called again.                    *)
(***************************************************************************)
C20_FailedOpenDetaches ==
    (openResult = "false" /\ st = "run") =>
        /\ file.st = "NULL"
        /\ calls = <<>> /\ next_call_no = 0
        /\ functions = <<>> /\ structs = <<>> /\ enums = <<>> /\ bitmasks = <<>>

====
